---- MODULE Spec2Model ----
(***************************************************************************)
(* Model of internal/apiClient/client.go: the Scylla Cloud REST client.    *)
(*                                                                         *)
(* State: the Client struct (token, endpoint, accountId), the constructor  *)
(* (NewClient / findAccountId) and a fixed set of goroutines calling the   *)
(* accessors ListCloudProviders, ListCloudProviderRegions and ListClusters *)
(* on the client NewClient returned.  Every accessor goes through          *)
(* Client.Get, which blocks at one place only, httpClient.Do; a call is    *)
(* therefore two steps, "up to the request being sent" and "from the       *)
(* response to the return".                                                *)
(*                                                                         *)
(* A response body is a text.  It is modelled as the sequence of top-level *)
(* segments the text consists of: each segment is either one complete JSON *)
(* value or a piece of text that is not JSON (Garbage).  JSON numbers keep *)
(* their literal (a sequence of characters), as json.Number does.          *)
(***************************************************************************)
EXTENDS Integers, Sequences, FiniteSets, TLC

(***************************************************************************)
(* Bounds of the model.                                                    *)
(***************************************************************************)
NumCallers  == 2     \* goroutines calling accessors on the same client
MaxItems    == 3     \* longest cluster-listing response (envelopes)
TickSeconds == 20    \* granularity of the clock, in seconds
MaxElapsed  == 80    \* the clock of a call stops being observed here

(***************************************************************************)
(* Program constants.                                                      *)
(***************************************************************************)
DefaultTimeout    == 60     \* seconds; var DefaultTimeout = 60 * time.Second
HttpClientTimeout == 0      \* httpClient := &http.Client{} : Timeout is the
                            \* zero value, which net/http reads as "no timeout"
DefaultEndpoint   == "https://cloud.scylladb.com/api/v0"
ClientTimeout     == DefaultTimeout    \* Timeout: time.Duration(DefaultTimeout)

(***************************************************************************)
(* JSON texts.                                                             *)
(***************************************************************************)
JNull     == [t |-> "null"]
JNum(lit) == [t |-> "num", lit |-> lit]       \* lit: the characters of the literal
JStr(s)   == [t |-> "str", s |-> s]
JBool(b)  == [t |-> "bool", b |-> b]
JArr(a)   == [t |-> "arr", a |-> a]           \* a: sequence of JSON values
JObj(o)   == [t |-> "obj", o |-> o]           \* o: sequence of members [k, v]
Garbage   == [t |-> "garbage"]                \* text that is not JSON
Member(k, v) == [k |-> k, v |-> v]

DigitChars == <<"0", "1", "2", "3", "4", "5", "6", "7", "8", "9">>

IsDigit(c) == \E i \in 1..10 : DigitChars[i] = c

DigitVal(c) == (CHOOSE i \in 1..10 : DigitChars[i] = c) - 1

(***************************************************************************)
(* fmt's %d of an integer.                                                 *)
(***************************************************************************)
RECURSIVE FormatD(_)
FormatD(n) ==
    IF n < 0 THEN "-" \o FormatD(-n)
    ELSE IF n < 10 THEN DigitChars[n + 1]
    ELSE FormatD(n \div 10) \o DigitChars[(n % 10) + 1]

(***************************************************************************)
(* strconv.ParseInt(lit, 10, 64) as encoding/json applies it to the        *)
(* literal of a JSON number stored into an int64 field: an optional sign   *)
(* followed by digits only; a fraction or an exponent is an error.  The    *)
(* literals of the model stay far below 2^63, so the range check of        *)
(* ParseInt never fires here.                                              *)
(***************************************************************************)
ParseIntOk(lit) ==
    LET digits == IF Len(lit) > 0 /\ lit[1] = "-" THEN Tail(lit) ELSE lit
    IN  /\ Len(digits) > 0
        /\ \A i \in 1..Len(digits) : IsDigit(digits[i])

RECURSIVE ParseDigits(_, _)
ParseDigits(digits, acc) ==
    IF digits = <<>> THEN acc
    ELSE ParseDigits(Tail(digits), 10 * acc + DigitVal(Head(digits)))

ParseInt(lit) ==
    IF lit[1] = "-" THEN 0 - ParseDigits(Tail(lit), 0) ELSE ParseDigits(lit, 0)

RECURSIVE JoinChars(_)
JoinChars(cs) == IF cs = <<>> THEN "" ELSE Head(cs) \o JoinChars(Tail(cs))

(***************************************************************************)
(* Go values.  A slice is nil or a sequence; an interface{} holds nil or a *)
(* dynamic value.  The structs keep the fields the decode contract needs   *)
(* (one int64 and one string field stand for the remaining ones, which are *)
(* decoded by the same rule).                                              *)
(***************************************************************************)
NilSlice     == [nil |-> TRUE,  elems |-> <<>>]
Slice(elems) == [nil |-> FALSE, elems |-> elems]
GoNil        == [t |-> "nil"]

UserAccountFields ==
    << [json |-> "UserID",    go |-> "UserId",    kind |-> "int64"],
       [json |-> "AccountID", go |-> "AccountId", kind |-> "int64"],
       [json |-> "Name",      go |-> "Name",      kind |-> "string"] >>

CloudProviderFields ==
    << [json |-> "ID",   go |-> "Id",   kind |-> "int64"],
       [json |-> "Name", go |-> "Name", kind |-> "string"] >>

CloudProviderRegionFields ==
    << [json |-> "ID",              go |-> "Id",              kind |-> "int64"],
       [json |-> "CloudProviderID", go |-> "CloudProviderId", kind |-> "int64"],
       [json |-> "Name",            go |-> "Name",            kind |-> "string"] >>

ClusterFields ==
    << [json |-> "ID",   go |-> "Id",   kind |-> "int64"],
       [json |-> "Name", go |-> "Name", kind |-> "string"] >>

ItemFields ==
    << [json |-> "Value", go |-> "Value", kind |-> "Cluster"],
       [json |-> "Error", go |-> "Error", kind |-> "interface"] >>

FieldsOf(kind) ==
    CASE kind = "UserAccount"         -> UserAccountFields
      [] kind = "CloudProvider"       -> CloudProviderFields
      [] kind = "CloudProviderRegion" -> CloudProviderRegionFields
      [] kind = "Cluster"             -> ClusterFields
      [] kind = "Item"                -> ItemFields

IsStruct(kind) ==
    kind \in {"UserAccount", "CloudProvider", "CloudProviderRegion", "Cluster", "Item"}

IsSliceOf(kind) ==
    kind \in {"[]CloudProvider", "[]CloudProviderRegion", "[]Item"}

ElemKind(kind) ==
    CASE kind = "[]CloudProvider"       -> "CloudProvider"
      [] kind = "[]CloudProviderRegion" -> "CloudProviderRegion"
      [] kind = "[]Item"                -> "Item"

(***************************************************************************)
(* The zero value of a Go type.                                            *)
(***************************************************************************)
Zero(kind) ==
    CASE kind = "int64"               -> 0
      [] kind = "string"              -> ""
      [] kind = "interface"           -> GoNil
      [] kind = "UserAccount"         -> [UserId |-> 0, AccountId |-> 0, Name |-> ""]
      [] kind = "CloudProvider"       -> [Id |-> 0, Name |-> ""]
      [] kind = "CloudProviderRegion" -> [Id |-> 0, CloudProviderId |-> 0, Name |-> ""]
      [] kind = "Cluster"             -> [Id |-> 0, Name |-> ""]
      [] kind = "Item"                -> [Value |-> [Id |-> 0, Name |-> ""], Error |-> GoNil]
      [] IsSliceOf(kind)              -> NilSlice

(***************************************************************************)
(* Decoding into interface{} with UseNumber: null gives nil, every other   *)
(* JSON value a non-nil dynamic value (string, json.Number, bool,          *)
(* []interface{}, map[string]interface{}).  A later member of an object    *)
(* replaces an earlier one with the same key.                              *)
(***************************************************************************)
RECURSIVE DecodeInterface(_)
RECURSIVE DecodeMembers(_, _)
DecodeMembers(members, acc) ==
    IF members = <<>> THEN acc
    ELSE LET m    == Head(members)
             kept == SelectSeq(acc, LAMBDA e : e.k # m.k)
         IN  DecodeMembers(Tail(members),
                           Append(kept, [k |-> m.k, v |-> DecodeInterface(m.v)]))

DecodeInterface(j) ==
    CASE j.t = "null" -> GoNil
      [] j.t = "str"  -> [t |-> "string", s |-> j.s]
      [] j.t = "num"  -> [t |-> "json.Number", lit |-> j.lit]
      [] j.t = "bool" -> [t |-> "bool", b |-> j.b]
      [] j.t = "arr"  -> [t |-> "slice",
                          a |-> [i \in 1..Len(j.a) |-> DecodeInterface(j.a[i])]]
      [] j.t = "obj"  -> [t |-> "map", m |-> DecodeMembers(j.o, <<>>)]

(***************************************************************************)
(* fmt's %v of the dynamic value of an interface{} (the map members of the *)
(* model have at most one key, so the key order of %v does not matter).    *)
(***************************************************************************)
RECURSIVE FormatV(_)
RECURSIVE FormatElems(_)
RECURSIVE FormatEntries(_)
FormatElems(a) ==
    IF a = <<>> THEN ""
    ELSE IF Len(a) = 1 THEN FormatV(a[1])
    ELSE FormatV(a[1]) \o " " \o FormatElems(Tail(a))

FormatEntries(m) ==
    IF m = <<>> THEN ""
    ELSE IF Len(m) = 1 THEN m[1].k \o ":" \o FormatV(m[1].v)
    ELSE m[1].k \o ":" \o FormatV(m[1].v) \o " " \o FormatEntries(Tail(m))

FormatV(x) ==
    CASE x.t = "nil"         -> "<nil>"
      [] x.t = "string"      -> x.s
      [] x.t = "json.Number" -> JoinChars(x.lit)
      [] x.t = "bool"        -> IF x.b THEN "true" ELSE "false"
      [] x.t = "slice"       -> "[" \o FormatElems(x.a) \o "]"
      [] x.t = "map"         -> "map[" \o FormatEntries(x.m) \o "]"

(***************************************************************************)
(* encoding/json's typed decode of one JSON value j into a destination of  *)
(* Go type kind that currently holds old.  The result is [bad, v]: bad     *)
(* says that an UnmarshalTypeError was recorded (the decoder keeps going   *)
(* and reports the error at the end), v is the destination afterwards.     *)
(* null leaves the destination as it is; an object member whose key names  *)
(* no field is skipped; a field with no member keeps its value.            *)
(***************************************************************************)
RECURSIVE DecodeValue(_, _, _)
RECURSIVE DecodeFields(_, _, _)
RECURSIVE DecodeElems(_, _)
DecodeFields(members, acc, fields) ==
    IF members = <<>> THEN acc
    ELSE LET m        == Head(members)
             matching == {i \in 1..Len(fields) : fields[i].json = m.k}
         IN  IF matching = {} THEN DecodeFields(Tail(members), acc, fields)
             ELSE LET f == fields[CHOOSE i \in matching : TRUE]
                      r == DecodeValue(m.v, acc.v[f.go], f.kind)
                  IN  DecodeFields(Tail(members),
                                   [bad |-> acc.bad \/ r.bad,
                                    v   |-> [acc.v EXCEPT ![f.go] = r.v]],
                                   fields)

DecodeElems(a, kind) ==
    IF a = <<>> THEN [bad |-> FALSE, v |-> <<>>]
    ELSE LET r    == DecodeValue(Head(a), Zero(kind), kind)
             rest == DecodeElems(Tail(a), kind)
         IN  [bad |-> r.bad \/ rest.bad, v |-> <<r.v>> \o rest.v]

DecodeValue(j, old, kind) ==
    IF kind = "interface" THEN [bad |-> FALSE, v |-> DecodeInterface(j)]
    ELSE IF j.t = "null" THEN [bad |-> FALSE, v |-> old]
    ELSE IF kind = "int64" THEN
        IF j.t = "num" /\ ParseIntOk(j.lit)
        THEN [bad |-> FALSE, v |-> ParseInt(j.lit)]
        ELSE [bad |-> TRUE, v |-> old]
    ELSE IF kind = "string" THEN
        IF j.t = "str" THEN [bad |-> FALSE, v |-> j.s]
                       ELSE [bad |-> TRUE, v |-> old]
    ELSE IF IsStruct(kind) THEN
        IF j.t = "obj"
        THEN DecodeFields(j.o, [bad |-> FALSE, v |-> old], FieldsOf(kind))
        ELSE [bad |-> TRUE, v |-> old]
    ELSE \* a slice
        IF j.t = "arr"
        THEN LET r == DecodeElems(j.a, ElemKind(kind))
             IN  [bad |-> r.bad, v |-> Slice(r.v)]
        ELSE [bad |-> TRUE, v |-> old]

(***************************************************************************)
(* Go errors: the dynamic type, the message, and the text the message ends *)
(* with when that text is a response body.                                 *)
(***************************************************************************)
NoError == [type |-> "nil", msg |-> "", tail |-> <<>>]
GoError(type, msg) == [type |-> type, msg |-> msg, tail |-> <<>>]

(***************************************************************************)
(* d := json.NewDecoder(bytes.NewReader(body)); d.UseNumber();             *)
(* d.Decode(resultType).  Decode reads the next JSON value of its input    *)
(* and nothing after it: an empty input is io.EOF, a text that does not    *)
(* start with a complete JSON value is a *json.SyntaxError, and whatever   *)
(* follows the first value is left unread in the decoder.                  *)
(***************************************************************************)
Decode(body, kind) ==
    IF body = <<>> THEN [err |-> GoError("io.EOF", "EOF"), v |-> Zero(kind)]
    ELSE IF body[1] = Garbage
        THEN [err |-> GoError("json.SyntaxError", "invalid character"), v |-> Zero(kind)]
    ELSE LET r == DecodeValue(body[1], Zero(kind), kind)
         IN  IF r.bad
             THEN [err |-> GoError("json.UnmarshalTypeError", "json: cannot unmarshal"),
                   v   |-> r.v]
             ELSE [err |-> NoError, v |-> r.v]


(***************************************************************************)
(* Client.Get after httpClient.Do and ioutil.ReadAll have returned the     *)
(* response resp = [status, body]: the status check and the decode.  The   *)
(* result is [err, v], v being the destination afterwards.                 *)
(***************************************************************************)
\* variant: the upper bound of the success range taken inclusive
StatusOk_Inclusive(status) == ~(status < 200 \/ status > 300)

StatusOk(status) == ~(status < 200 \/ status >= 300)

StatusError(url, status, body) ==
    [type |-> "errors.errorString",
     msg  |-> "HTTP request to '" \o url \o "' failed with code "
                  \o FormatD(status) \o ": ",
     tail |-> body]

GetResult(url, resp, kind) ==
    IF ~StatusOk(resp.status)
    THEN [err |-> StatusError(url, resp.status, resp.body), v |-> Zero(kind)]
    ELSE Decode(resp.body, kind)

(***************************************************************************)
(* Client.Get up to httpClient.Do: the URL, the request and its headers.   *)
(* http.NewRequest fails when the URL does not parse, which the endpoint   *)
(* decides (every path of the client is a well-formed absolute path).      *)
(***************************************************************************)
UnparsableEndpoints == {"http://[::1"}

NewRequestFails(endpoint) == endpoint \in UnparsableEndpoints

NewRequest(url, tok) ==
    [method        |-> "GET",
     url           |-> url,
     accept        |-> "application/json",
     authorization |-> "Bearer " \o tok]

NoRequest == [method |-> "", url |-> "", accept |-> "", authorization |-> ""]
NoResponse == [status |-> 0, body |-> <<>>]

(***************************************************************************)
(* The error httpClient.Do or ioutil.ReadAll returns when the transport    *)
(* fails.  A client with a Timeout gives up when the time is over; the     *)
(* client Get builds has none.                                             *)
(***************************************************************************)
TimedOut(elapsed) == HttpClientTimeout > 0 /\ elapsed >= HttpClientTimeout

TransportErrors(elapsed) ==
    IF TimedOut(elapsed)
    THEN {GoError("url.Error", "context deadline exceeded (Client.Timeout exceeded)")}
    ELSE {GoError("url.Error", "connection refused"),
          GoError("net.OpError", "read: connection reset by peer")}

(***************************************************************************)
(* The paths of the four resources.                                        *)
(***************************************************************************)
AccountDefaultPath == "/account/default"
ProvidersPath      == "/deployment/provider"
RegionsPath(providerId) == "/deployment/provider/" \o FormatD(providerId) \o "/region"
ClustersPath(acc)  == "/account/" \o FormatD(acc) \o "/cluster"

(***************************************************************************)
(* What the accessors return from Get's outcome get = [err, v].            *)
(***************************************************************************)
PassThrough(get) ==
    IF get.err # NoError THEN [result |-> NilSlice, err |-> get.err]
                         ELSE [result |-> get.v,    err |-> NoError]

ItemError(item) ==
    [type |-> "errors.errorString",
     msg  |-> "cluster error: " \o FormatV(item.Error),
     tail |-> <<>>]

\* variant: an item counts as failed when its error has a text
ItemFailed_NonEmpty(item) ==
    item.Error \notin {GoNil, [t |-> "string", s |-> ""]}

\* if item.Error != nil
ItemFailed(item) == item.Error # GoNil

\* variant: an erroneous item is skipped and the loop goes on
RECURSIVE UnwrapItems_Skip(_, _, _)
UnwrapItems_Skip(items, i, clusters) ==
    IF i > Len(items) THEN [result |-> Slice(clusters), err |-> NoError]
    ELSE IF ItemFailed(items[i]) THEN UnwrapItems_Skip(items, i + 1, clusters)
    ELSE UnwrapItems_Skip(items, i + 1, [clusters EXCEPT ![i] = items[i].Value])

\* for i, item := range result { ... } of ListClusters, from index i on
RECURSIVE UnwrapItems(_, _, _)
UnwrapItems(items, i, clusters) ==
    IF i > Len(items) THEN [result |-> Slice(clusters), err |-> NoError]
    ELSE IF ItemFailed(items[i])
        THEN [result |-> NilSlice, err |-> ItemError(items[i])]
    ELSE UnwrapItems(items, i + 1, [clusters EXCEPT ![i] = items[i].Value])

\* variant: the values are appended to the slice made with len(result)
ListClustersReturn_Append(get) ==
    IF get.err # NoError THEN [result |-> NilSlice, err |-> get.err]
    ELSE LET items == get.v.elems
             zeros == [i \in 1..Len(items) |-> Zero("Cluster")]
             r     == UnwrapItems(items, 1, zeros)
         IN  IF r.err # NoError THEN r
             ELSE [result |-> Slice(zeros \o r.result.elems), err |-> NoError]

ListClustersReturn(get) ==
    IF get.err # NoError THEN [result |-> NilSlice, err |-> get.err]
    ELSE LET items == get.v.elems
         IN  UnwrapItems(items, 1, [i \in 1..Len(items) |-> Zero("Cluster")])

DestKind(op) ==
    CASE op = "ListCloudProviders"       -> "[]CloudProvider"
      [] op = "ListCloudProviderRegions" -> "[]CloudProviderRegion"
      [] op = "ListClusters"             -> "[]Item"

AccessorReturn(op, get) ==
    IF op = "ListClusters" THEN ListClustersReturn(get) ELSE PassThrough(get)

\* variant: the user id is taken for the account id
AccountIdOf_UserId(userAccount) == userAccount.UserId

\* findAccountId: the account id to store, from the decoded UserAccount
AccountIdOf(userAccount) == userAccount.AccountId

\* variant: the client is returned together with the error
NewClientReturn_Always(err) == [client |-> TRUE, err |-> err]

\* NewClient: what it returns from the error of findAccountId
NewClientReturn(err) ==
    IF err # NoError THEN [client |-> FALSE, err |-> err]
                     ELSE [client |-> TRUE,  err |-> NoError]

(***************************************************************************)
(* The servers the client is run against: status codes and response texts. *)
(***************************************************************************)
Tokens       == {"tok-A", "tok-B"}
Endpoints    == {DefaultEndpoint, "http://localhost:8080/api"}
ProviderIds  == {1, 12}

SmallStatuses == {200, 404}
AllStatuses   == {199, 200, 204, 299, 300, 404, 500}

Absent == [t |-> "absent"]     \* an object member that is not there

Members(ms) == SelectSeq(ms, LAMBDA m : m.v # Absent)

AccountJSON(userId, accId) ==
    JObj(Members(<< Member("UserID", userId), Member("AccountID", accId),
                    Member("Name", JStr("acme")) >>))

Account42   == AccountJSON(JNum(<<"7">>), JNum(<<"4", "2">>))
Account1234 == AccountJSON(JNum(<<"4", "2">>), JNum(<<"1", "2", "3", "4">>))

SmallAccountBodies == { <<Account42>>, <<Account1234>>, <<Garbage>> }

BasicAccountBodies ==
    SmallAccountBodies \cup
    { <<>>, <<JNull>>, <<JArr(<<>>)>>, <<Account42, Garbage>>,
      <<AccountJSON(JNum(<<"7">>), Absent)>>,
      <<AccountJSON(JNum(<<"7">>), JNum(<<"-", "5">>))>>,
      <<AccountJSON(JNum(<<"7">>), JNum(<<"4", "2", ".", "5">>))>>,
      <<AccountJSON(JNum(<<"7">>), JStr("42"))>> }

ResourceJSON(id, name) == JObj(Members(<< Member("ID", id), Member("Name", name) >>))

Resource1 == ResourceJSON(JNum(<<"1">>), JStr("AWS"))
Resource2 == ResourceJSON(JNum(<<"2", "0">>), JStr("GCP"))

SmallListBodies == { <<JArr(<<Resource1, Resource2>>)>>, <<Garbage>> }

BasicListBodies ==
    SmallListBodies \cup
    { <<>>, <<JNull>>, <<JArr(<<>>)>>, <<JObj(<<>>)>>, <<JStr("ok")>>,
      <<JArr(<<Resource1, JNum(<<"5">>)>>)>>,
      <<JArr(<<ResourceJSON(JStr("1"), JStr("AWS"))>>)>>,
      <<JArr(<<Resource2>>), Garbage>> }

Envelope(value, error) == JObj(Members(<< Member("Value", value), Member("Error", error) >>))

ErrorSlots ==
    { Absent, JNull, JStr(""), JStr("boom"), JNum(<<"0">>), JBool(FALSE),
      JObj(<<>>), JArr(<<>>) }

Envelopes ==
    { Envelope(Resource1, e) : e \in ErrorSlots } \cup
    { Envelope(Resource2, e) : e \in {Absent, JStr("quota")} }

EnvelopeLists(n) == UNION { [1..k -> Envelopes] : k \in 0..n }

ClusterLists == EnvelopeLists(MaxItems)

RichClusterBodies == { <<JArr(l)>> : l \in ClusterLists }

SmallClusterBodies ==
    { <<JArr(<<Envelope(Resource1, Absent), Envelope(Resource2, JNull)>>)>>,
      <<JArr(<<Envelope(Resource1, Absent), Envelope(Resource2, JStr("boom"))>>)>>,
      <<Garbage>> }

BasicClusterBodies ==
    SmallClusterBodies \cup
    { <<>>, <<JNull>>, <<JObj(<<>>)>>,
      <<JArr(<<Envelope(JStr("oops"), Absent), Envelope(Resource1, JStr("boom"))>>)>>,
      <<JArr(<<Envelope(Resource1, JObj(<<Member("Code", JNum(<<"7">>))>>))>>)>>,
      <<JArr(<<Envelope(Resource1, JArr(<<JStr("a"), JBool(TRUE)>>))>>)>>,
      <<JArr(<<Envelope(Resource1, Absent)>>), Garbage>>,
      <<JArr(<<Envelope(Resource1, JStr("boom"))>>), Garbage>> }

Product(statuses, bodies) == { [status |-> s, body |-> b] : s \in statuses, b \in bodies }

SmallAccountResponses == Product(SmallStatuses, SmallAccountBodies)
SmallListResponses    == Product(SmallStatuses, SmallListBodies)
SmallClusterResponses == Product(SmallStatuses, SmallClusterBodies)

AllAccountResponses == Product(AllStatuses, BasicAccountBodies)
AllListResponses    == Product(AllStatuses, BasicListBodies)
AllClusterResponses ==
    Product(AllStatuses, BasicClusterBodies) \cup Product({200}, RichClusterBodies)

SmallResponses(op) ==
    CASE op = "findAccountId" -> SmallAccountResponses
      [] op = "ListClusters"  -> SmallClusterResponses
      [] OTHER                -> SmallListResponses

AllResponses(op) ==
    CASE op = "findAccountId" -> AllAccountResponses
      [] op = "ListClusters"  -> AllClusterResponses
      [] OTHER                -> AllListResponses

(***************************************************************************)
(* State.                                                                  *)
(***************************************************************************)
VARIABLES
    phase,       \* "Uninitialized", "Bootstrapping", "Ready" or "Failed"
    token,       \* Client.token
    endpoint,    \* Client.endpoint
    accountId,   \* Client.accountId
    clientRef,   \* NewClient returned a non-nil *Client
    ctorErr,     \* the error NewClient returned
    calls        \* the Get of the constructor (0) and of each caller (1..)

vars == <<phase, token, endpoint, accountId, clientRef, ctorErr, calls>>

Callers == 1..NumCallers

NoReturn == [result |-> NilSlice, err |-> NoError]

IdleCall ==
    [op |-> "none", arg |-> 0, pc |-> "idle", url |-> "", req |-> NoRequest,
     gets |-> 0, sent |-> 0, elapsed |-> 0, resp |-> NoResponse,
     dest |-> NilSlice,      \* the destination handed to Get, as Get left it
     ret  |-> NoReturn]      \* what the accessor returned

Init ==
    /\ phase = "Uninitialized"
    /\ token = ""
    /\ endpoint = ""
    /\ accountId = 0
    /\ clientRef = FALSE
    /\ ctorErr = NoError
    /\ calls = [c \in 0..NumCallers |-> IdleCall]

(***************************************************************************)
(* Client.Get(path, ...) from its entry to httpClient.Do(req): the call    *)
(* record of a Get that has sent its request, or that returned the error   *)
(* of http.NewRequest.                                                     *)
(***************************************************************************)
\* variant: the request is sent a second time
DoSend_Twice(call) == [call EXCEPT !.sent = @ + 2, !.pc = "inflight"]

DoSend(call) == [call EXCEPT !.sent = @ + 1, !.pc = "inflight"]

GetSend(op, arg, kind, ep, tok, path) ==
    LET url  == ep \o path
        call == [IdleCall EXCEPT !.op = op, !.arg = arg, !.url = url, !.gets = 1,
                                 !.dest = Zero(kind)]
    IN  IF NewRequestFails(ep)
        THEN [call EXCEPT !.pc = "done",
                          !.ret = [result |-> NilSlice,
                                   err |-> GoError("url.Error", "parse")]]
        ELSE DoSend([call EXCEPT !.req = NewRequest(url, tok)])

(***************************************************************************)
(* NewClient(endpoint, token) up to the request of findAccountId.          *)
(***************************************************************************)
NewClient(ep, tok) ==
    /\ phase = "Uninitialized"
    /\ token' = tok
    /\ endpoint' = ep
    /\ accountId' = 0
    /\ LET call == GetSend("findAccountId", 0, "UserAccount", ep, tok, AccountDefaultPath)
           ret  == NewClientReturn(call.ret.err)
       IN  /\ calls' = [calls EXCEPT ![0] = call]
           /\ IF call.pc = "done"
              THEN /\ phase' = "Failed"
                   /\ clientRef' = ret.client
                   /\ ctorErr' = ret.err
              ELSE /\ phase' = "Bootstrapping"
                   /\ UNCHANGED <<clientRef, ctorErr>>

(***************************************************************************)
(* findAccountId and NewClient from the response of /account/default on.   *)
(***************************************************************************)
FinishNewClient(call, get) ==
    LET ret == NewClientReturn(get.err)
    IN  /\ calls' = [calls EXCEPT ![0] =
                        [call EXCEPT !.pc = "done", !.elapsed = 0, !.dest = get.v,
                                     !.ret = [result |-> NilSlice, err |-> get.err]]]
        /\ accountId' = IF get.err = NoError THEN AccountIdOf(get.v) ELSE accountId
        /\ clientRef' = ret.client
        /\ ctorErr' = ret.err
        /\ phase' = IF ret.client THEN "Ready" ELSE "Failed"
        /\ UNCHANGED <<token, endpoint>>

BootstrapResponse(resps) ==
    /\ phase = "Bootstrapping"
    /\ calls[0].pc = "inflight"
    /\ \E resp \in resps :
          FinishNewClient([calls[0] EXCEPT !.resp = resp],
                          GetResult(calls[0].url, resp, "UserAccount"))

BootstrapTransportError ==
    /\ phase = "Bootstrapping"
    /\ calls[0].pc = "inflight"
    /\ \E e \in TransportErrors(calls[0].elapsed) :
          FinishNewClient(calls[0], [err |-> e, v |-> Zero("UserAccount")])

(***************************************************************************)
(* The accessors up to the request.                                        *)
(***************************************************************************)
Invoke(c, op, arg, path) ==
    /\ clientRef
    /\ calls[c].pc = "idle"
    /\ LET call == GetSend(op, arg, DestKind(op), endpoint, token, path)
       IN  calls' = [calls EXCEPT ![c] =
                        IF call.pc = "done"
                        THEN [call EXCEPT !.ret = AccessorReturn(op,
                                     [err |-> call.ret.err, v |-> Zero(DestKind(op))])]
                        ELSE call]
    /\ UNCHANGED <<phase, token, endpoint, accountId, clientRef, ctorErr>>

ListCloudProviders(c) == Invoke(c, "ListCloudProviders", 0, ProvidersPath)

\* variant: the provider id is kept in the client
ListCloudProviderRegions_Store(c, providerId) ==
    /\ clientRef
    /\ calls[c].pc = "idle"
    /\ calls' = [calls EXCEPT ![c] =
                    GetSend("ListCloudProviderRegions", providerId,
                            "[]CloudProviderRegion", endpoint, token,
                            RegionsPath(providerId))]
    /\ accountId' = providerId
    /\ UNCHANGED <<phase, token, endpoint, clientRef, ctorErr>>

ListCloudProviderRegions(c, providerId) ==
    Invoke(c, "ListCloudProviderRegions", providerId, RegionsPath(providerId))

ListClusters(c) == Invoke(c, "ListClusters", 0, ClustersPath(accountId))

(***************************************************************************)
(* The accessors from the response to their return.                        *)
(***************************************************************************)
Finish(c, call, get) ==
    /\ calls' = [calls EXCEPT ![c] =
                    [call EXCEPT !.pc = "done", !.elapsed = 0, !.dest = get.v,
                                 !.ret = AccessorReturn(call.op, get)]]
    /\ UNCHANGED <<phase, token, endpoint, accountId, clientRef, ctorErr>>

AccessorResponse(c, resps) ==
    /\ calls[c].pc = "inflight"
    /\ \E resp \in resps :
          Finish(c, [calls[c] EXCEPT !.resp = resp],
                 GetResult(calls[c].url, resp, DestKind(calls[c].op)))

AccessorTransportError(c) ==
    /\ calls[c].pc = "inflight"
    /\ \E e \in TransportErrors(calls[c].elapsed) :
          Finish(c, calls[c], [err |-> e, v |-> Zero(DestKind(calls[c].op))])

\* the caller has looked at what the accessor returned
Return(c) ==
    /\ calls[c].pc = "done"
    /\ calls' = [calls EXCEPT ![c] = IdleCall]
    /\ UNCHANGED <<phase, token, endpoint, accountId, clientRef, ctorErr>>

(***************************************************************************)
(* Time passes while a request is in flight and the server is silent.      *)
(***************************************************************************)
Tick(c) ==
    /\ calls[c].pc = "inflight"
    /\ ~TimedOut(calls[c].elapsed)
    /\ calls[c].elapsed < MaxElapsed
    /\ calls' = [calls EXCEPT ![c].elapsed = @ + TickSeconds]
    /\ UNCHANGED <<phase, token, endpoint, accountId, clientRef, ctorErr>>

(***************************************************************************)
(* Spec: NumCallers goroutines share the client.                           *)
(***************************************************************************)
Next ==
    \/ \E ep \in Endpoints \cup UnparsableEndpoints, tok \in Tokens : NewClient(ep, tok)
    \/ BootstrapResponse(SmallResponses("findAccountId"))
    \/ BootstrapTransportError
    \/ \E c \in Callers : ListCloudProviders(c)
    \/ \E c \in Callers, p \in ProviderIds : ListCloudProviderRegions(c, p)
    \/ \E c \in Callers : ListClusters(c)
    \/ \E c \in Callers : AccessorResponse(c, SmallResponses(calls[c].op))
    \/ \E c \in Callers : AccessorTransportError(c)
    \/ \E c \in Callers : Return(c)

Spec == Init /\ [][Next]_vars

(***************************************************************************)
(* SpecDecode: one caller, every status and response text of the model.    *)
(***************************************************************************)
NextDecode ==
    \/ \E ep \in {DefaultEndpoint} \cup UnparsableEndpoints : NewClient(ep, "tok-A")
    \/ BootstrapResponse(AllResponses("findAccountId"))
    \/ BootstrapTransportError
    \/ ListCloudProviders(1)
    \/ \E p \in ProviderIds : ListCloudProviderRegions(1, p)
    \/ ListClusters(1)
    \/ AccessorResponse(1, AllResponses(calls[1].op))
    \/ AccessorTransportError(1)
    \/ Return(1)

SpecDecode == Init /\ [][NextDecode]_vars

(***************************************************************************)
(* SpecTimed: one caller and the clock of the requests in flight.          *)
(***************************************************************************)
NextTimed ==
    \/ \E ep \in Endpoints, tok \in Tokens : NewClient(ep, tok)
    \/ BootstrapResponse(SmallResponses("findAccountId"))
    \/ BootstrapTransportError
    \/ ListCloudProviders(1)
    \/ \E p \in ProviderIds : ListCloudProviderRegions(1, p)
    \/ ListClusters(1)
    \/ AccessorResponse(1, SmallResponses(calls[1].op))
    \/ AccessorTransportError(1)
    \/ Return(1)
    \/ \E c \in {0, 1} : Tick(c)

SpecTimed == Init /\ [][NextTimed]_vars

(***************************************************************************)
(* Vocabulary of the properties.  The expected texts are written out, not  *)
(* computed with the operators of the model.                               *)
(***************************************************************************)
Responded(call) == call.pc = "done" /\ call.resp # NoResponse

Is2xx(status) == status \in 200..299

StatusText(status) ==
    CASE status = 199 -> "199" [] status = 200 -> "200" [] status = 204 -> "204"
      [] status = 299 -> "299" [] status = 300 -> "300" [] status = 404 -> "404"
      [] status = 500 -> "500"

AccountText(acc) ==
    CASE acc = 0 -> "0" [] acc = 42 -> "42" [] acc = 1234 -> "1234" [] acc = -5 -> "-5"

ExpectedPath(call) ==
    CASE call.op = "findAccountId"      -> "/account/default"
      [] call.op = "ListCloudProviders" -> "/deployment/provider"
      [] call.op = "ListCloudProviderRegions" ->
             IF call.arg = 1 THEN "/deployment/provider/1/region"
                             ELSE "/deployment/provider/12/region"
      [] call.op = "ListClusters" -> "/account/" \o AccountText(accountId) \o "/cluster"

\* the member of a JSON object with this key that a reader keeps (the last)
Slot(obj, key) ==
    LET at == {i \in 1..Len(obj.o) : obj.o[i].k = key}
    IN  IF at = {} THEN Absent
        ELSE obj.o[CHOOSE i \in at : \A j \in at : j <= i].v

ClusterOf(value) ==
    CASE value = Absent    -> [Id |-> 0,  Name |-> ""]
      [] value = Resource1 -> [Id |-> 1,  Name |-> "AWS"]
      [] value = Resource2 -> [Id |-> 20, Name |-> "GCP"]

WellFormedEnvelope(env) ==
    /\ env.t = "obj"
    /\ Slot(env, "Value") \in {Absent, Resource1, Resource2}

\* a 2xx cluster listing whose text starts with an array of envelopes
EnvelopeListing(call) ==
    /\ call.op = "ListClusters"
    /\ Responded(call)
    /\ Is2xx(call.resp.status)
    /\ call.resp.body # <<>>
    /\ call.resp.body[1].t = "arr"
    /\ \A i \in 1..Len(call.resp.body[1].a) : WellFormedEnvelope(call.resp.body[1].a[i])

ErrorSlot(call, i) == Slot(call.resp.body[1].a[i], "Error")

SlotEmpty(slot) == slot \in {Absent, JNull}

ErroneousItems(call) ==
    {i \in 1..Len(call.resp.body[1].a) : ~SlotEmpty(ErrorSlot(call, i))}

ErrorText(slot) ==
    CASE slot = JStr("")           -> ""
      [] slot = JStr("boom")       -> "boom"
      [] slot = JStr("quota")      -> "quota"
      [] slot = JNum(<<"0">>)      -> "0"
      [] slot = JBool(FALSE)       -> "false"
      [] slot = JObj(<<>>)         -> "map[]"
      [] slot = JArr(<<>>)         -> "[]"
      [] slot = JObj(<<Member("Code", JNum(<<"7">>))>>) -> "map[Code:7]"
      [] slot = JArr(<<JStr("a"), JBool(TRUE)>>)        -> "[a true]"

(***************************************************************************)
(* C1: a Get whose response has a status outside [200,300) fails with the  *)
(* status error: its message is the URL (endpoint + path), the status code *)
(* and the response text verbatim; the destination is left as it was and   *)
(* nothing is returned or stored, whatever the text is.                    *)
(***************************************************************************)
C1_StatusError ==
    \A c \in 0..NumCallers :
        (Responded(calls[c]) /\ ~Is2xx(calls[c].resp.status)) =>
            /\ calls[c].ret.err.type = "errors.errorString"
            /\ calls[c].ret.err.msg =
                   "HTTP request to '" \o endpoint \o ExpectedPath(calls[c])
                       \o "' failed with code " \o StatusText(calls[c].resp.status) \o ": "
            /\ calls[c].ret.err.tail = calls[c].resp.body
            /\ calls[c].ret.result = NilSlice
            /\ calls[c].dest = IF c = 0 THEN [UserId |-> 0, AccountId |-> 0, Name |-> ""]
                                        ELSE NilSlice
            /\ (c = 0 => accountId = 0 /\ ~clientRef)

C1_Witness ==
    /\ Responded(calls[1])
    /\ calls[1].op = "ListCloudProviders"
    /\ calls[1].resp = [status |-> 300, body |-> <<JArr(<<Resource1, Resource2>>)>>]
    /\ calls[1].ret.err.type = "errors.errorString"

(***************************************************************************)
(* C2: when a 2xx cluster listing is a sequence of envelopes and the error *)
(* slot of some envelope is populated, ListClusters fails with the item    *)
(* error of the first such envelope and returns no cluster at all.         *)
(***************************************************************************)
C2_ItemErrorFailsCall ==
    \A c \in Callers :
        (EnvelopeListing(calls[c]) /\ ErroneousItems(calls[c]) # {}) =>
            LET first == CHOOSE i \in ErroneousItems(calls[c]) :
                             \A j \in ErroneousItems(calls[c]) : i <= j
            IN  /\ calls[c].ret.err.type = "errors.errorString"
                /\ calls[c].ret.err.msg =
                       "cluster error: " \o ErrorText(ErrorSlot(calls[c], first))
                /\ calls[c].ret.err.tail = <<>>
                /\ calls[c].ret.result = NilSlice

\* item 2 of 3 is erroneous, and so is item 3, with another error
C2_Witness ==
    /\ EnvelopeListing(calls[1])
    /\ calls[1].resp.body =
           <<JArr(<<Envelope(Resource1, Absent), Envelope(Resource1, JStr("boom")),
                    Envelope(Resource2, JStr("quota"))>>)>>
    /\ calls[1].ret.err.msg = "cluster error: boom"
    /\ calls[1].ret.result = NilSlice

(***************************************************************************)
(* C3: when every envelope of a 2xx cluster listing succeeds, ListClusters *)
(* returns, without error, the values of the envelopes in the order and    *)
(* number of the response (the empty listing included).                    *)
(***************************************************************************)
C3_OrderAndLength ==
    \A c \in Callers :
        (EnvelopeListing(calls[c]) /\ ErroneousItems(calls[c]) = {}) =>
            LET envs == calls[c].resp.body[1].a
            IN  /\ calls[c].ret.err = NoError
                /\ ~calls[c].ret.result.nil
                /\ Len(calls[c].ret.result.elems) = Len(envs)
                /\ \A i \in 1..Len(envs) :
                       calls[c].ret.result.elems[i] = ClusterOf(Slot(envs[i], "Value"))

C3_Witness ==
    /\ EnvelopeListing(calls[1])
    /\ calls[1].resp.body =
           <<JArr(<<Envelope(Resource2, Absent), Envelope(Resource1, JNull),
                    Envelope(Resource2, Absent)>>)>>
    /\ calls[1].ret.result.elems =
           << [Id |-> 20, Name |-> "GCP"], [Id |-> 1, Name |-> "AWS"],
              [Id |-> 20, Name |-> "GCP"] >>

C3_WitnessEmpty ==
    /\ EnvelopeListing(calls[1])
    /\ calls[1].resp.body = <<JArr(<<>>)>>
    /\ calls[1].ret = [result |-> Slice(<<>>), err |-> NoError]

(***************************************************************************)
(* C4: the lifecycle is Uninitialized -> Bootstrapping -> Ready and never  *)
(* goes back; NewClient runs the Get of /account/default once and has its  *)
(* outcome before it returns; Ready is reached only when that Get          *)
(* succeeded; when it failed NewClient returns the error and no client, so *)
(* no accessor ever runs on a client whose bootstrap failed.               *)
(***************************************************************************)
C4_State ==
    /\ calls[0].gets <= 1
    /\ phase \in {"Ready", "Failed"} =>
           /\ calls[0].gets = 1
           /\ calls[0].pc = "done"
           /\ calls[0].op = "findAccountId"
           /\ calls[0].url = endpoint \o "/account/default"
    /\ phase = "Ready" <=> clientRef
    /\ phase = "Ready" =>
           /\ Responded(calls[0])
           /\ Is2xx(calls[0].resp.status)
           /\ calls[0].ret.err = NoError
           /\ ctorErr = NoError
    /\ (calls[0].pc = "done" /\ calls[0].ret.err # NoError) =>
           /\ phase = "Failed"
           /\ ~clientRef
           /\ ctorErr = calls[0].ret.err
    /\ \A c \in Callers : calls[c].pc # "idle" => phase = "Ready"

C4_Step ==
    /\ phase = "Ready" => phase' = "Ready"
    /\ phase = "Failed" => phase' = "Failed"
    /\ phase' = "Uninitialized" => phase = "Uninitialized"
    /\ phase' = "Bootstrapping" => phase \in {"Uninitialized", "Bootstrapping"}
    /\ (phase' = "Ready" /\ phase # "Ready") => phase = "Bootstrapping"

C4_Lifecycle == []C4_State /\ [][C4_Step]_vars

\* the bootstrap was answered with a status error and construction failed
C4_Witness ==
    /\ phase = "Failed"
    /\ Responded(calls[0])
    /\ calls[0].resp.status = 404
    /\ ctorErr.type = "errors.errorString"
    /\ ~clientRef

C4_WitnessReady ==
    /\ phase = "Ready"
    /\ \E c \in Callers : calls[c].pc = "done"

(***************************************************************************)
(* C5: when the default-account endpoint returned account id A and the     *)
(* construction succeeded, every ListClusters of the client asks for       *)
(* /account/A/cluster; no ListClusters builds its path before the          *)
(* bootstrap has completed.                                                *)
(***************************************************************************)
C5_ClusterPath ==
    \A c \in Callers :
        calls[c].op = "ListClusters" =>
            /\ phase = "Ready"
            /\ calls[0].pc = "done"
            /\ calls[0].resp.body = <<Account42>> =>
                   /\ calls[c].url = endpoint \o "/account/42/cluster"
                   /\ calls[c].req.url = endpoint \o "/account/42/cluster"
            /\ calls[0].resp.body = <<Account1234>> =>
                   /\ calls[c].url = endpoint \o "/account/1234/cluster"
                   /\ calls[c].req.url = endpoint \o "/account/1234/cluster"

C5_Witness ==
    /\ calls[0].resp.body = <<Account42>>
    /\ calls[1].op = "ListClusters"
    /\ calls[1].pc = "inflight"
    /\ calls[1].req.url = DefaultEndpoint \o "/account/42/cluster"

(***************************************************************************)
(* C6: every call is bounded by the timeout configured on the client: no   *)
(* request is still waiting for the transport after more than that time.   *)
(***************************************************************************)
C6_BoundedByTimeout ==
    \A c \in 0..NumCallers :
        calls[c].pc = "inflight" => calls[c].elapsed <= ClientTimeout

(***************************************************************************)
(* C7: a 2xx response whose text is malformed (not one JSON value, or a    *)
(* JSON value of another kind than the expected one) makes the call fail   *)
(* with a decode error, which is not the status error.                     *)
(***************************************************************************)
NotJSON(body) == Len(body) # 1 \/ body[1] = Garbage

WrongKind(call) ==
    /\ call.resp.body # <<>>
    /\ call.resp.body[1].t \notin
           {IF call.op = "findAccountId" THEN "obj" ELSE "arr", "null", "garbage"}

DecodeErrorTypes == {"io.EOF", "json.SyntaxError", "json.UnmarshalTypeError"}

C7_MalformedIsDecodeError ==
    \A c \in 0..NumCallers :
        (/\ Responded(calls[c])
         /\ Is2xx(calls[c].resp.status)
         /\ NotJSON(calls[c].resp.body) \/ WrongKind(calls[c])) =>
            /\ calls[c].ret.err.type \in DecodeErrorTypes
            /\ calls[c].ret.err.type # "errors.errorString"

(***************************************************************************)
(* C8: an accessor invocation sends exactly one request, a GET with the    *)
(* Authorization: Bearer <token> and Accept: application/json headers, and *)
(* no other one whatever its outcome.                                      *)
(***************************************************************************)
C8_OneRequest ==
    \A c \in Callers :
        calls[c].pc # "idle" =>
            /\ calls[c].gets = 1
            /\ calls[c].sent = 1
            /\ calls[c].req.method = "GET"
            /\ calls[c].req.url = endpoint \o ExpectedPath(calls[c])
            /\ calls[c].req.accept = "application/json"
            /\ calls[c].req.authorization = "Bearer " \o token

\* a call that ended with a transport error, next to one that succeeded
C8_Witness ==
    /\ calls[1].pc = "done"
    /\ calls[1].ret.err.type = "url.Error"
    /\ calls[1].sent = 1
    /\ calls[2].pc = "done"
    /\ calls[2].ret.err = NoError

(***************************************************************************)
(* C9: once the client is Ready no step of any caller changes its token,   *)
(* endpoint or account id (the account id is written by the construction   *)
(* only), and what a call returns is decided by these fields, its argument *)
(* and its own response.                                                   *)
(***************************************************************************)
C9_FieldsFrozen ==
    /\ phase = "Ready" =>
           /\ token' = token
           /\ endpoint' = endpoint
           /\ accountId' = accountId
    /\ accountId' # accountId => (phase = "Bootstrapping" /\ phase' = "Ready")

C9_OwnOutcome ==
    \A c \in Callers :
        Responded(calls[c]) =>
            calls[c].ret =
                AccessorReturn(calls[c].op,
                    GetResult(endpoint \o ExpectedPath(calls[c]), calls[c].resp,
                              DestKind(calls[c].op)))

C9_Immutable == [][C9_FieldsFrozen]_vars /\ []C9_OwnOutcome

\* two calls of the same client in flight at once
C9_Witness ==
    /\ phase = "Ready"
    /\ accountId = 1234
    /\ calls[1].pc = "inflight" /\ calls[1].op = "ListCloudProviderRegions"
    /\ calls[2].pc = "inflight" /\ calls[2].op = "ListClusters"

(***************************************************************************)
(* C10: ListClusters takes an envelope as failed exactly when its Error    *)
(* slot decodes to a non-nil value: an absent or null Error is a success,  *)
(* any other JSON value ("" , 0, false, {} and [] included) fails the call *)
(* with the item error.                                                    *)
(***************************************************************************)
NonNilJSONKinds == {"str", "num", "bool", "obj", "arr"}

C10_FailedIffNonNil ==
    \A c \in Callers :
        EnvelopeListing(calls[c]) =>
            LET envs   == calls[c].resp.body[1].a
                failed == /\ calls[c].ret.err.type = "errors.errorString"
                          /\ calls[c].ret.result = NilSlice
                nonNil == \E i \in 1..Len(envs) :
                              Slot(envs[i], "Error").t \in NonNilJSONKinds
            IN  /\ failed <=> nonNil
                /\ ~failed <=> calls[c].ret.err = NoError

C10_Witness ==
    /\ EnvelopeListing(calls[1])
    /\ calls[1].resp.body =
           <<JArr(<<Envelope(Resource1, JNull), Envelope(Resource1, JStr(""))>>)>>
    /\ calls[1].ret.err.msg = "cluster error: "
    /\ calls[1].ret.result = NilSlice
====
